---- MODULE Spec2Model ----
(***************************************************************************)
(* The PO translation helpers of docs/: translate_po.py (static glossary), *)
(* populate_translations.py (static glossary, module-level script) and     *)
(* auto_translate.py (Microsoft Translator API, batched).                  *)
(*                                                                         *)
(* A text is a sequence of characters.  A character is a one-letter        *)
(* string; the characters the scripts treat specially have names (DQ, BS,  *)
(* NL, TAB, SP) and a CJK character is named by its code point.            *)
(***************************************************************************)
EXTENDS Integers, Sequences, FiniteSets, TLC

VARIABLES
    entries,           \* the PO entries the input file was written from
    file,              \* the text of the PO file on disk
    content,           \* the script's `content` string
    pc,                \* the script's position
    k,                 \* index of the glossary entry the for loop is at
    translated_count,  \* the script's translated_count
    runs,              \* how many times the script has been started
    first_written,     \* what the first run wrote
    writes,            \* number of times the file was opened for writing
    api_key,           \* auto_translate.API_KEY is set (truthy)
    batch_size,        \* translate_po_file's batch_size argument
    untranslated,      \* extract_untranslated_messages's result
    i,                 \* the batch loop's index
    translations,      \* what translate_text returned for the current batch
    http_ok,           \* whether the current batch's HTTP call succeeded
    sent,              \* the batch_texts passed to translate_text, in order
    log,               \* the calls of translate_text and time.sleep, in order
    failed,            \* number of batches whose HTTP call failed
    returned,          \* number of non-empty translations translate_text returned
    ret                \* main's return value ("none" while running)

vars == <<entries, file, content, pc, k, translated_count, runs, first_written,
          writes, api_key, batch_size, untranslated, i, translations, http_ok,
          sent, log, failed, returned, ret>>

autoVars == <<api_key, batch_size, untranslated, i, translations, http_ok,
              sent, log, failed, returned, ret>>

(***************************************************************************)
(* Characters and Python's str operations                                  *)
(***************************************************************************)
DQ  == "dq"     \* the double quote
BS  == "bs"     \* the backslash
NL  == "nl"     \* the newline
TAB == "tab"    \* the tab
SP  == "sp"     \* the space

Min(S) == CHOOSE x \in S : \A y \in S : x <= y

\* s[pos:].startswith(p), positions counted from 1
StartsWithAt(s, p, pos) ==
    /\ pos >= 1
    /\ pos + Len(p) - 1 <= Len(s)
    /\ \A j \in 1..Len(p) : s[pos + j - 1] = p[j]

\* s.find(p, from): the first position >= from where p occurs, 0 when none
Find(s, p, from) ==
    LET hits == {q \in from..(Len(s) - Len(p) + 1) : StartsWithAt(s, p, q)}
    IN  IF hits = {} THEN 0 ELSE Min(hits)

\* p in s
Contains(s, p) == Find(s, p, 1) # 0

\* s with the Len(old) characters at pos replaced by new
Splice(s, pos, oldlen, new) ==
    SubSeq(s, 1, pos - 1) \o new \o SubSeq(s, pos + oldlen, Len(s))

\* s.replace(old, new, 1)
ReplaceFirst(s, old, new) ==
    LET pos == Find(s, old, 1)
    IN  IF pos = 0 THEN s ELSE Splice(s, pos, Len(old), new)

\* [s.replace(old, new) from position `from` on, number of replacements]:
\* every non-overlapping occurrence, left to right (old is never empty here)
RECURSIVE ReplaceAllFrom(_, _, _, _)
ReplaceAllFrom(s, old, new, from) ==
    LET pos == Find(s, old, from)
    IN  IF pos = 0 THEN <<s, 0>>
        ELSE LET rest == ReplaceAllFrom(Splice(s, pos, Len(old), new), old, new,
                                        pos + Len(new))
             IN  <<rest[1], rest[2] + 1>>

\* s.replace(old, new)
StrReplace(s, old, new) == ReplaceAllFrom(s, old, new, 1)[1]

RECURSIVE Concat(_)
Concat(ss) == IF ss = <<>> THEN <<>> ELSE Head(ss) \o Concat(Tail(ss))

SeqsUpTo(S, n) == UNION {[1..m -> S] : m \in 0..n}

(***************************************************************************)
(* The PO file                                                             *)
(***************************************************************************)
MaxEntries == 2

KwMsgid  == <<"m", "s", "g", "i", "d", SP>>
KwMsgstr == <<"m", "s", "g", "s", "t", "r", SP>>

\* an earlier translation found in the file
OldText == <<"o", "l", "d">>

\* how an entry's msgstr is written: empty, on the msgstr line, or as an empty
\* first line followed by a continuation string line
Forms == {"empty", "single", "multi"}

Quoted(text) == <<DQ>> \o text \o <<DQ>>

RenderEntry(e) ==
    KwMsgid \o Quoted(e.msgid) \o <<NL>>
    \o KwMsgstr
    \o (CASE e.form = "empty"  -> Quoted(<<>>) \o <<NL>>
          [] e.form = "single" -> Quoted(e.msgstr) \o <<NL>>
          [] e.form = "multi"  -> Quoted(<<>>) \o <<NL>> \o Quoted(e.msgstr) \o <<NL>>)
    \o <<NL>>

RenderFile(es) == Concat([j \in 1..Len(es) |-> RenderEntry(es[j])])

Entry(msgid, form) ==
    [msgid |-> msgid, form |-> form,
     msgstr |-> IF form = "empty" THEN <<>> ELSE OldText]

EntriesOver(msgids) == {Entry(m, f) : m \in msgids, f \in Forms}

\* the entry has a translation
Translated(e) == e.form # "empty"

(***************************************************************************)
(* Python's re module, for the patterns the glossary scripts build: the    *)
(* text `msgid "` + re.escape(key) + `"\nmsgstr ""`, which holds no        *)
(* unescaped metacharacter and so matches one literal text.                *)
(***************************************************************************)
AsciiLetters ==
    {"a", "b", "c", "d", "e", "f", "g", "h", "i", "j", "k", "l", "m",
     "n", "o", "p", "q", "r", "s", "t", "u", "v", "w", "x", "y", "z",
     "A", "B", "C", "D", "E", "F", "G", "H", "I", "J", "K", "L", "M",
     "N", "O", "P", "Q", "R", "S", "T", "U", "V", "W", "X", "Y", "Z"}

Digits == {"0", "1", "2", "3", "4", "5", "6", "7", "8", "9"}

\* the characters re.escape puts a backslash before (re._special_chars_map),
\* among those a text of the model can hold
ReSpecial == {SP, TAB, NL, BS, "-", "#", ".", "+", "*", "?", "(", ")", "[", "]",
              "{", "}", "|", "^", "$", "&", "~"}

\* re.escape(text)
re_escape(text) ==
    Concat([j \in 1..Len(text) |->
               IF text[j] \in ReSpecial THEN <<BS, text[j]>> ELSE <<text[j]>>])

\* the literal text a compiled pattern matches: \n and \t are the newline and
\* the tab, a backslash before any other character quotes that character
RECURSIVE ReLiteral(_)
ReLiteral(pattern) ==
    IF pattern = <<>> THEN <<>>
    ELSE IF Head(pattern) = BS /\ Len(pattern) >= 2
         THEN LET c == pattern[2]
              IN  <<(CASE c = "n" -> NL [] c = "t" -> TAB [] OTHER -> c)>>
                  \o ReLiteral(SubSeq(pattern, 3, Len(pattern)))
         ELSE <<Head(pattern)>> \o ReLiteral(Tail(pattern))

\* the replacement template as re.sub expands it (no match group exists):
\* [ok |-> FALSE] stands for re.error
RECURSIVE ExpandRepl(_)
ExpandRepl(repl) ==
    IF repl = <<>> THEN [ok |-> TRUE, text |-> <<>>]
    ELSE IF Head(repl) # BS
         THEN LET r == ExpandRepl(Tail(repl))
              IN  [ok |-> r.ok, text |-> <<Head(repl)>> \o r.text]
    ELSE IF Len(repl) = 1 THEN [ok |-> FALSE, text |-> <<>>]
    ELSE LET c == repl[2]
             r == ExpandRepl(SubSeq(repl, 3, Len(repl)))
         IN  CASE c = "n" -> [ok |-> r.ok, text |-> <<NL>> \o r.text]
               [] c = "t" -> [ok |-> r.ok, text |-> <<TAB>> \o r.text]
               [] c = BS  -> [ok |-> r.ok, text |-> <<BS>> \o r.text]
               [] c \in (AsciiLetters \cup Digits) \ {"n", "t"} ->
                      [ok |-> FALSE, text |-> <<>>]
               [] OTHER   -> [ok |-> r.ok, text |-> <<BS, c>> \o r.text]

\* re.subn(pattern, repl, string): [ok, content, count]
re_subn(pattern, repl, string) ==
    LET t == ExpandRepl(repl)
        r == ReplaceAllFrom(string, ReLiteral(pattern), t.text, 1)
    IN  IF t.ok THEN [ok |-> TRUE, content |-> r[1], count |-> r[2]]
        ELSE [ok |-> FALSE, content |-> string, count |-> 0]

(***************************************************************************)
(* translate_po.py                                                         *)
(***************************************************************************)
Tip      == <<"T", "i", "p">>
SeeAlso  == <<"S", "e", "e", SP, "a", "l", "s", "o">>
See      == <<"S", "e", "e">>

\* the entries of TRANSLATIONS whose keys the files of the model hold, in the
\* order of the dict: "Tip": "提示", "See also": "另见", "See": "详见"
TRANSLATIONS ==
    << <<Tip,     <<"u63D0", "u793A">> >>,
       <<SeeAlso, <<"u53E6", "u89C1">> >>,
       <<See,     <<"u8BE6", "u89C1">> >> >>

\* a msgid that is no key of TRANSLATIONS
NoKey == <<"S", "e">>

TpMsgids == {Tip, SeeAlso, See, NoKey}

MaxRuns == 2

\* TpPattern without the closing quote of the empty msgstr: a pattern that
\* also matches an entry whose msgstr line holds a translation
TpPattern_AnyMsgstr(english) ==
    KwMsgid \o Quoted(re_escape(english)) \o <<BS, "n">> \o KwMsgstr \o <<DQ>>

\* pattern = rf'msgid "{escaped}"\nmsgstr ""'
TpPattern(english) ==
    KwMsgid \o Quoted(re_escape(english)) \o <<BS, "n">> \o KwMsgstr \o Quoted(<<>>)

\* replacement = f'msgid "{english}"\nmsgstr "{chinese}"'
TpReplacement(english, chinese) ==
    KwMsgid \o Quoted(english) \o <<NL>> \o KwMsgstr \o Quoted(chinese)

\* one iteration of the for loop: re.subn(pattern, replacement, content)
TpSubstitute(c, english, chinese) ==
    re_subn(TpPattern(english), TpReplacement(english, chinese), c)

TpInit ==
    /\ entries \in SeqsUpTo(EntriesOver(TpMsgids), MaxEntries)
    /\ file = RenderFile(entries)
    /\ content = <<>>
    /\ pc = "start"
    /\ k = 0
    /\ translated_count = 0
    /\ runs = 1
    /\ first_written = <<>>
    /\ writes = 0
    /\ api_key = FALSE
    /\ batch_size = 0
    /\ untranslated = <<>>
    /\ i = 0
    /\ translations = <<>>
    /\ http_ok = TRUE
    /\ sent = <<>>
    /\ log = <<>>
    /\ failed = 0
    /\ returned = 0
    /\ ret = "none"

\* with open(po_path, 'r') ...: content = f.read(); translated_count = 0
TpRead ==
    /\ pc = "start"
    /\ content' = file
    /\ translated_count' = 0
    /\ k' = 1
    /\ pc' = "loop"
    /\ UNCHANGED <<entries, file, runs, first_written, writes>>
    /\ UNCHANGED autoVars

\* for english, chinese in TRANSLATIONS.items(): ...
TpLoop ==
    /\ pc = "loop"
    /\ k <= Len(TRANSLATIONS)
    /\ LET r == TpSubstitute(content, TRANSLATIONS[k][1], TRANSLATIONS[k][2])
       IN  IF ~r.ok
           THEN /\ pc' = "raised"
                /\ UNCHANGED <<content, translated_count, k>>
           ELSE /\ content' = IF r.count > 0 THEN r.content ELSE content
                /\ translated_count' =
                       IF r.count > 0 THEN translated_count + r.count
                       ELSE translated_count
                /\ k' = k + 1
                /\ pc' = pc
    /\ UNCHANGED <<entries, file, runs, first_written, writes>>
    /\ UNCHANGED autoVars

\* with open(po_path, 'w') ...: f.write(content)
TpWrite ==
    /\ pc = "loop"
    /\ k > Len(TRANSLATIONS)
    /\ file' = content
    /\ writes' = writes + 1
    /\ first_written' = IF runs = 1 THEN content ELSE first_written
    /\ pc' = "done"
    /\ UNCHANGED <<entries, content, k, translated_count, runs>>
    /\ UNCHANGED autoVars

\* the script is started again on the file it wrote
TpRerun ==
    /\ pc = "done"
    /\ runs < MaxRuns
    /\ runs' = runs + 1
    /\ pc' = "start"
    /\ UNCHANGED <<entries, file, content, k, translated_count, first_written, writes>>
    /\ UNCHANGED autoVars

TpNext == TpRead \/ TpLoop \/ TpWrite \/ TpRerun

SpecTranslatePo == TpInit /\ [][TpNext]_vars

(***************************************************************************)
(* Properties of translate_po.py                                           *)
(***************************************************************************)
TpKeys == {TRANSLATIONS[j][1] : j \in 1..Len(TRANSLATIONS)}

TpChinese(english) ==
    TRANSLATIONS[CHOOSE j \in 1..Len(TRANSLATIONS) : TRANSLATIONS[j][1] = english][2]

\* the entries translate_po.py is to fill in: a glossary msgid, no msgstr yet
TpEligible(es) == {j \in 1..Len(es) : es[j].msgid \in TpKeys /\ ~Translated(es[j])}

\* es with the entries of S given their glossary value on the msgstr line
TpFilled(es, S) ==
    [j \in 1..Len(es) |->
        IF j \in S
        THEN [msgid |-> es[j].msgid, form |-> "single", msgstr |-> TpChinese(es[j].msgid)]
        ELSE es[j]]

\* the loop of translate_po_file with the glossary entries taken in the order gl
RECURSIVE TpApply(_, _)
TpApply(gl, c) ==
    IF gl = <<>> THEN c
    ELSE TpApply(Tail(gl), TpSubstitute(c, Head(gl)[1], Head(gl)[2]).content)

\* number of non-overlapping occurrences of p in s
Count(s, p) == ReplaceAllFrom(s, p, p, 1)[2]

\* C1: after translate_po_file of translate_po.py has written the file, every
\* entry whose msgid is no key of TRANSLATIONS or whose msgstr is already
\* non-empty is as it was, and a substituted entry keeps its msgid line and
\* has its msgstr changed from "" to the glossary value of its msgid.
C1_OtherEntriesUnchanged ==
    (pc = "done" /\ runs = 1) =>
        \E S \in SUBSET TpEligible(entries) : file = RenderFile(TpFilled(entries, S))

\* C10: a second run of translate_po.py on its own output writes the same
\* content and adds 0 translations; the written content is the same for every
\* order of the TRANSLATIONS entries; and no substitution creates or destroys
\* a `msgid "<key>"` / `msgstr ""` pair of another key.
C10_IdempotentOrderIndependent ==
    /\ (pc = "done" /\ runs >= 2) => (file = first_written /\ translated_count = 0)
    /\ (pc = "done" /\ runs = 1) =>
           \A p \in Permutations(1..Len(TRANSLATIONS)) :
               TpApply([j \in 1..Len(TRANSLATIONS) |-> TRANSLATIONS[p[j]]],
                       RenderFile(entries)) = file
    /\ pc = "loop" =>
           \A a, b \in 1..Len(TRANSLATIONS) :
               a # b =>
                   LET pat == ReLiteral(TpPattern(TRANSLATIONS[b][1]))
                       c2 == TpSubstitute(content, TRANSLATIONS[a][1],
                                          TRANSLATIONS[a][2]).content
                   IN  Count(c2, pat) = Count(content, pat)

\* a second run has finished on a file in which the first run filled in the
\* entries of two different keys
C10_Witness ==
    /\ pc = "done"
    /\ runs = 2
    /\ translated_count = 0
    /\ file = first_written
    /\ \E a, b \in TpEligible(entries) : entries[a].msgid # entries[b].msgid
    /\ first_written # RenderFile(entries)

(***************************************************************************)
(* populate_translations.py                                                *)
(***************************************************************************)
SummarySummary ==
    <<"S", "u", "m", "m", "a", "r", "y", "#", SP, "S", "u", "m", "m", "a", "r", "y">>
IntroductionChapter1 ==
    <<"I", "n", "t", "r", "o", "d", "u", "c", "t", "i", "o", "n", BS, "-", SP,
      "C", "h", "a", "p", "t", "e", "r", SP, "1">>
Output == <<"o", "u", "t", "p", "u", "t">>

\* the entries of `translations` whose keys the files of the model hold, in the
\* order of the dict: "Summary# Summary": "目录",
\* "Introduction\\- Chapter 1": "简介 - 第一章", "output": "输出"
translations_dict ==
    << <<SummarySummary,       <<"u76EE", "u5F55">> >>,
       <<IntroductionChapter1, <<"u7B80", "u4ECB", SP, "-", SP, "u7B2C", "u4E00", "u7AE0">> >>,
       <<Output,               <<"u8F93", "u51FA">> >> >>

\* a msgid that is no key of `translations`
PopNoKey == <<"o", "u", "t">>

PopMsgids == {SummarySummary, IntroductionChapter1, Output, PopNoKey}

\* the pattern built from the key as it stands, without re.escape
PopPattern_NoEscape(en) ==
    KwMsgid \o Quoted(en) \o <<BS, "n">> \o KwMsgstr \o Quoted(<<>>)

\* pattern = f'msgid "{re.escape(en)}"\\nmsgstr ""'
PopPattern(en) ==
    KwMsgid \o Quoted(re_escape(en)) \o <<BS, "n">> \o KwMsgstr \o Quoted(<<>>)

\* replacement = f'msgid "{en}"\\nmsgstr "{zh}"'
PopReplacement(en, zh) ==
    KwMsgid \o Quoted(en) \o <<BS, "n">> \o KwMsgstr \o Quoted(zh)

PopInit ==
    /\ entries \in SeqsUpTo(EntriesOver(PopMsgids), MaxEntries)
    /\ file = RenderFile(entries)
    /\ content = <<>>
    /\ pc = "start"
    /\ k = 0
    /\ translated_count = 0
    /\ runs = 1
    /\ first_written = <<>>
    /\ writes = 0
    /\ api_key = FALSE
    /\ batch_size = 0
    /\ untranslated = <<>>
    /\ i = 0
    /\ translations = <<>>
    /\ http_ok = TRUE
    /\ sent = <<>>
    /\ log = <<>>
    /\ failed = 0
    /\ returned = 0
    /\ ret = "none"

\* with open('i18n/zh-CN/messages.po', 'r') ...: content = f.read()
PopRead ==
    /\ pc = "start"
    /\ content' = file
    /\ k' = 1
    /\ pc' = "loop"
    /\ UNCHANGED <<entries, file, translated_count, runs, first_written, writes>>
    /\ UNCHANGED autoVars

\* for en, zh in translations.items(): content = re.sub(pattern, replacement, content)
PopLoop ==
    /\ pc = "loop"
    /\ k <= Len(translations_dict)
    /\ LET en == translations_dict[k][1]
           zh == translations_dict[k][2]
           r  == re_subn(PopPattern(en), PopReplacement(en, zh), content)
       IN  IF ~r.ok
           THEN /\ pc' = "raised"
                /\ UNCHANGED <<content, k>>
           ELSE /\ content' = r.content
                /\ k' = k + 1
                /\ pc' = pc
    /\ UNCHANGED <<entries, file, translated_count, runs, first_written, writes>>
    /\ UNCHANGED autoVars

\* with open('i18n/zh-CN/messages.po', 'w') ...: f.write(content)
PopWrite ==
    /\ pc = "loop"
    /\ k > Len(translations_dict)
    /\ file' = content
    /\ writes' = writes + 1
    /\ pc' = "done"
    /\ UNCHANGED <<entries, content, k, translated_count, runs, first_written>>
    /\ UNCHANGED autoVars

PopNext == PopRead \/ PopLoop \/ PopWrite

SpecPopulate == PopInit /\ [][PopNext]_vars

(***************************************************************************)
(* Properties of populate_translations.py                                  *)
(***************************************************************************)
\* the entries of a PO text: each ends with its blank line
RECURSIVE Blocks(_)
Blocks(s) ==
    LET pos == Find(s, <<NL, NL>>, 1)
    IN  IF pos = 0 THEN (IF s = <<>> THEN <<>> ELSE <<s>>)
        ELSE <<SubSeq(s, 1, pos + 1)>> \o Blocks(SubSeq(s, pos + 2, Len(s)))

PopKeys == {translations_dict[j][1] : j \in 1..Len(translations_dict)}

PopChinese(en) ==
    translations_dict[CHOOSE j \in 1..Len(translations_dict) :
                          translations_dict[j][1] = en][2]

PopEligible(es) == {j \in 1..Len(es) : es[j].msgid \in PopKeys /\ ~Translated(es[j])}

\* C7: populate_translations.py goes through every entry of `translations`
\* in order without raising and writes the file once; in the written file
\* every entry whose msgid is a glossary key (the key with the backslash
\* included) and whose msgstr was empty has the key's Chinese value as its
\* msgstr, on an unchanged msgid line.
C7_WholeGlossaryApplied ==
    /\ pc # "raised"
    /\ writes = (IF pc = "done" THEN 1 ELSE 0)
    /\ pc = "loop" => k \in 1..(Len(translations_dict) + 1)
    /\ pc = "done" =>
           /\ k = Len(translations_dict) + 1
           /\ Len(Blocks(file)) = Len(entries)
           /\ \A j \in PopEligible(entries) :
                  Blocks(file)[j] =
                      RenderEntry([msgid |-> entries[j].msgid, form |-> "single",
                                   msgstr |-> PopChinese(entries[j].msgid)])

\* the file was written with the entry of the key with the backslash and the
\* entry of another key filled in
C7_Witness ==
    /\ pc = "done"
    /\ \E a, b \in PopEligible(entries) :
           /\ entries[a].msgid = IntroductionChapter1
           /\ entries[b].msgid # IntroductionChapter1
    /\ file # RenderFile(entries)

(***************************************************************************)
(* auto_translate.py                                                       *)
(***************************************************************************)
MaxBatch == 2

ProjectIdVersion ==
    <<"P", "r", "o", "j", "e", "c", "t", "-", "I", "d", "-",
      "V", "e", "r", "s", "i", "o", "n">>

MaxAutoEntries == 3

\* the entries of the files: an untranslated one whose msgid holds an escaped
\* newline, the same msgid translated on the msgstr line and translated on a
\* continuation line, an untranslated one whose msgid holds a tab character,
\* and an untranslated one that the extraction skips as metadata
AtEntries ==
    {Entry(<<"a", BS, "n">>, "empty"),
     Entry(<<"a", BS, "n">>, "single"),
     Entry(<<"a", BS, "n">>, "multi"),
     Entry(<<"a", TAB>>, "empty"),
     Entry(ProjectIdVersion, "empty")}

\* re.match of r'msgid "([^"]+)"\nmsgstr ""' at pos: [found, group, end].
\* The group is the run of characters up to the next double quote; it is not
\* empty, and the text after it is `"`, a newline and `msgstr ""`.
MatchAt(c, pos) ==
    LET g0   == pos + Len(KwMsgid) + 1
        q    == Find(c, <<DQ>>, g0)
        tail == <<DQ, NL>> \o KwMsgstr \o <<DQ, DQ>>
    IN  IF /\ StartsWithAt(c, KwMsgid \o <<DQ>>, pos)
           /\ q > g0
           /\ StartsWithAt(c, tail, q)
        THEN [found |-> TRUE, group |-> SubSeq(c, g0, q - 1), end |-> q + Len(tail)]
        ELSE [found |-> FALSE, group |-> <<>>, end |-> pos]

\* re.finditer(pattern, po_content) from position `from` on: the matches that
\* do not overlap, left to right, as <<group, start>>
RECURSIVE FindIter(_, _)
FindIter(c, from) ==
    LET starts == {q \in from..Len(c) : MatchAt(c, q).found}
    IN  IF starts = {} THEN <<>>
        ELSE LET q == Min(starts)
                 m == MatchAt(c, q)
             IN  <<[group |-> m.group, start |-> q]>> \o FindIter(c, m.end)

\* msgid.replace('\\n', '\n').replace('\\t', '\t').replace('\\"', '"')
Unescape(msgid) ==
    StrReplace(StrReplace(StrReplace(msgid, <<BS, "n">>, <<NL>>),
                          <<BS, "t">>, <<TAB>>),
               <<BS, DQ>>, <<DQ>>)

\* original.replace('\n', '\\n').replace('\t', '\\t').replace('"', '\\"')
EscapeOriginal(original) ==
    StrReplace(StrReplace(StrReplace(original, <<NL>>, <<BS, "n">>),
                          <<TAB>>, <<BS, "t">>),
               <<DQ>>, <<BS, DQ>>)

\* translation.replace('"', '\\"').replace('\n', '\\n').replace('\t', '\\t')
EscapeTranslation(translation) ==
    StrReplace(StrReplace(StrReplace(translation, <<DQ>>, <<BS, DQ>>),
                          <<NL>>, <<BS, "n">>),
               <<TAB>>, <<BS, "t">>)

\* extract_untranslated_messages(po_content): the (msgid, position) pairs
extract_untranslated_messages(po_content) ==
    LET ms   == FindIter(po_content, 1)
        keep == SelectSeq(ms, LAMBDA m :
                    m.group # <<>> /\ ~StartsWithAt(m.group, ProjectIdVersion, 1))
    IN  [j \in 1..Len(keep) |->
            [msgid |-> Unescape(keep[j].group), position |-> keep[j].start]]

\* the items of a response body: a JSON object without a 'translations' key,
\* or one whose 'translations' list holds one translated text (here Z")
ResponseItems ==
    {[has_translations |-> FALSE, translations |-> <<>>],
     [has_translations |-> TRUE, translations |-> << [text |-> <<"Z", DQ>>] >>]}

\* what the HTTP call for n texts can do: fail (any exception inside the try
\* block), or deliver a JSON list; the code does not look at its length
Responses(n) ==
    {[error |-> TRUE, result |-> <<>>]}
    \cup {[error |-> FALSE, result |-> r] :
             r \in UNION {[1..m -> ResponseItems] : m \in {n - 1, n, n + 1} \cap Nat}}

\* return [] in place of the list of empty strings
Fallback_Empty(texts) == <<>>

\* except Exception: return [''] * len(texts)
Fallback(texts) == [j \in 1..Len(texts) |-> <<>>]

\* translate_text with the check of the key made inside the try block, where
\* `except Exception` absorbs the ValueError
translate_text_KeyInsideTry(key, texts, resp) ==
    IF ~key \/ (texts # <<>> /\ resp.error)
    THEN [raised |-> FALSE, value |-> Fallback(texts)]
    ELSE IF texts = <<>> THEN [raised |-> FALSE, value |-> <<>>]
    ELSE [raised |-> FALSE,
          value  |-> [j \in 1..Len(resp.result) |->
                         IF resp.result[j].has_translations
                            /\ Len(resp.result[j].translations) > 0
                         THEN resp.result[j].translations[1].text
                         ELSE <<>>]]

\* translate_text(texts) when the HTTP call answers resp:
\* [raised |-> TRUE] is the ValueError, value is the returned list
translate_text(key, texts, resp) ==
    IF ~key THEN [raised |-> TRUE, value |-> <<>>]
    ELSE IF texts = <<>> THEN [raised |-> FALSE, value |-> <<>>]
    ELSE IF resp.error THEN [raised |-> FALSE, value |-> Fallback(texts)]
    ELSE [raised |-> FALSE,
          value  |-> [j \in 1..Len(resp.result) |->
                         IF resp.result[j].has_translations
                            /\ Len(resp.result[j].translations) > 0
                         THEN resp.result[j].translations[1].text
                         ELSE <<>>]]

total == Len(untranslated)

\* untranslated[i:i+batch_size-1]
Batch_OneShort(msgs, start, size) ==
    SubSeq(msgs, start + 1, IF start + size - 1 < Len(msgs) THEN start + size - 1
                            ELSE Len(msgs))

\* untranslated[i:i+batch_size]
Batch(msgs, start, size) ==
    SubSeq(msgs, start + 1, IF start + size < Len(msgs) THEN start + size ELSE Len(msgs))

\* [msg[0] for msg in batch]
BatchTexts(batch) == [j \in 1..Len(batch) |-> batch[j].msgid]

\* the number of batches: (total + batch_size - 1) // batch_size
NumBatches(n, size) == (n + size - 1) \div size

\* if i + batch_size <= total
NeedsDelay_AfterLast(start, size, n) == start + size <= n

\* if i + batch_size < total
NeedsDelay(start, size, n) == start + size < n

\* old_pattern = f'msgid "{escaped_original}"\nmsgstr ""'
OldPattern(original) ==
    KwMsgid \o Quoted(EscapeOriginal(original)) \o <<NL>> \o KwMsgstr \o Quoted(<<>>)

\* new_pattern = f'msgid "{escaped_original}"\nmsgstr "{escaped_translation}"'
NewPattern(original, translation) ==
    KwMsgid \o Quoted(EscapeOriginal(original)) \o <<NL>>
    \o KwMsgstr \o Quoted(EscapeTranslation(translation))

\* for (original, position), translation in zip(batch, translations): ...
\* from the n-th pair on: [content, translated_count]
RECURSIVE ReplaceLoop(_, _, _, _, _)
ReplaceLoop(batch, trs, n, c, count) ==
    IF n > Len(batch) \/ n > Len(trs) THEN [content |-> c, count |-> count]
    ELSE IF trs[n] # <<>> /\ Contains(c, OldPattern(batch[n].msgid))
         THEN ReplaceLoop(batch, trs, n + 1,
                          ReplaceFirst(c, OldPattern(batch[n].msgid),
                                       NewPattern(batch[n].msgid, trs[n])),
                          count + 1)
         ELSE ReplaceLoop(batch, trs, n + 1, c, count)

NonEmpty(trs) == Cardinality({j \in 1..Len(trs) : trs[j] # <<>>})

AtInit ==
    /\ entries \in SeqsUpTo(AtEntries, MaxAutoEntries)
    /\ file = RenderFile(entries)
    /\ api_key \in BOOLEAN
    /\ batch_size \in 1..MaxBatch
    /\ content = <<>>
    /\ pc = "start"
    /\ k = 0
    /\ translated_count = 0
    /\ runs = 1
    /\ first_written = <<>>
    /\ writes = 0
    /\ untranslated = <<>>
    /\ i = 0
    /\ translations = <<>>
    /\ http_ok = TRUE
    /\ sent = <<>>
    /\ log = <<>>
    /\ failed = 0
    /\ returned = 0
    /\ ret = "none"

glossaryVars == <<entries, k, runs, first_written>>

\* translate_po_file up to the loop: read, extract, return early when nothing
\* is untranslated
AtRead ==
    /\ pc = "start"
    /\ content' = file
    /\ untranslated' = extract_untranslated_messages(file)
    /\ pc' = IF untranslated' = <<>> THEN "return" ELSE "call"
    /\ i' = 0
    /\ translated_count' = 0
    /\ UNCHANGED <<file, writes, api_key, batch_size, translations, http_ok,
                   sent, log, failed, returned, ret>>
    /\ UNCHANGED glossaryVars

\* translations = translate_text(batch_texts)
AtCall ==
    /\ pc = "call"
    /\ LET texts == BatchTexts(Batch(untranslated, i, batch_size))
       IN  /\ sent' = Append(sent, texts)
           /\ log' = Append(log, "call")
           /\ \E resp \in Responses(Len(texts)) :
                  LET r == translate_text(api_key, texts, resp)
                  IN  IF r.raised
                      THEN /\ pc' = "raised"
                           /\ UNCHANGED <<translations, http_ok, failed, returned>>
                      ELSE /\ pc' = "replace"
                           /\ translations' = r.value
                           /\ http_ok' = ~resp.error
                           /\ failed' = IF resp.error THEN failed + 1 ELSE failed
                           /\ returned' = returned + NonEmpty(r.value)
    /\ UNCHANGED <<file, content, translated_count, writes, api_key, batch_size,
                   untranslated, i, ret>>
    /\ UNCHANGED glossaryVars

\* the zip loop over the batch, then the end of the loop body: sleep if
\* another batch follows, and the for loop's next index
AtReplace ==
    /\ pc = "replace"
    /\ LET r == ReplaceLoop(Batch(untranslated, i, batch_size), translations, 1,
                            content, translated_count)
       IN  /\ content' = r.content
           /\ translated_count' = r.count
    /\ IF NeedsDelay(i, batch_size, total)
       THEN /\ pc' = "sleep"
            /\ i' = i
       ELSE /\ pc' = IF i + batch_size < total THEN "call" ELSE "write"
            /\ i' = i + batch_size
    /\ UNCHANGED <<file, writes, api_key, batch_size, untranslated, translations,
                   http_ok, sent, log, failed, returned, ret>>
    /\ UNCHANGED glossaryVars

\* time.sleep(delay)
AtSleep ==
    /\ pc = "sleep"
    /\ log' = Append(log, "sleep")
    /\ pc' = IF i + batch_size < total THEN "call" ELSE "write"
    /\ i' = i + batch_size
    /\ UNCHANGED <<file, content, translated_count, writes, api_key, batch_size,
                   untranslated, translations, http_ok, sent, failed, returned, ret>>
    /\ UNCHANGED glossaryVars

\* with open(po_path, 'w') ...: f.write(content)
AtWrite ==
    /\ pc = "write"
    /\ file' = content
    /\ writes' = writes + 1
    /\ pc' = "written"
    /\ UNCHANGED <<content, translated_count, api_key, batch_size, untranslated, i,
                   translations, http_ok, sent, log, failed, returned, ret>>
    /\ UNCHANGED glossaryVars

\* main: translate_po_file returned; return 0
MainReturn0 ==
    /\ pc \in {"return", "written"}
    /\ ret' = "0"
    /\ pc' = "exit"
    /\ UNCHANGED <<file, content, translated_count, writes, api_key, batch_size,
                   untranslated, i, translations, http_ok, sent, log, failed, returned>>
    /\ UNCHANGED glossaryVars

\* main: except Exception: ... return 1
MainReturn1 ==
    /\ pc = "raised"
    /\ ret' = "1"
    /\ pc' = "exit"
    /\ UNCHANGED <<file, content, translated_count, writes, api_key, batch_size,
                   untranslated, i, translations, http_ok, sent, log, failed, returned>>
    /\ UNCHANGED glossaryVars

AtNext ==
    AtRead \/ AtCall \/ AtReplace \/ AtSleep \/ AtWrite \/ MainReturn0 \/ MainReturn1

SpecAuto == AtInit /\ [][AtNext]_vars

(***************************************************************************)
(* Properties of auto_translate.py                                         *)
(***************************************************************************)
Texts(msgs) == [j \in 1..Len(msgs) |-> msgs[j].msgid]

IsPrefix(p, s) == Len(p) <= Len(s) /\ SubSeq(s, 1, Len(p)) = p

Calls == Cardinality({j \in 1..Len(log) : log[j] = "call"})
Sleeps == Cardinality({j \in 1..Len(log) : log[j] = "sleep"})

\* translate_po_file is over: it returned or raised
AtOver == pc \in {"return", "written", "raised", "exit"}

\* C2: every entry that has a translation before the run of auto_translate's
\* translate_po_file (on the msgstr line, or as an empty first line followed
\* by a continuation string line) has the same msgstr in the written file.
C2_TranslatedEntriesKept ==
    pc = "written" =>
        \A j \in 1..Len(entries) :
            Translated(entries[j]) =>
                /\ j <= Len(Blocks(file))
                /\ Blocks(file)[j] = RenderEntry(entries[j])

\* C3: the log of a run alternates call, sleep, call, ..., starting and
\* ending with a call: one sleep between two consecutive calls, none before
\* the first call or after the last, so N calls come with N - 1 sleeps.
C3_OneSleepBetweenCalls ==
    /\ \A j \in 1..Len(log) : log[j] = (IF j % 2 = 1 THEN "call" ELSE "sleep")
    /\ pc = "call" => (log = <<>> \/ log[Len(log)] = "sleep")
    /\ (AtOver /\ Calls >= 1) => (log[Len(log)] = "call" /\ Sleeps = Calls - 1)

\* a run that made three calls has written the file
C3_Witness ==
    /\ pc = "written"
    /\ Calls >= 3
    /\ Sleeps = Calls - 1
    /\ batch_size < total

\* the batches passed to translate_text so far are the batches of the list
\* of extracted messages, in order
BatchesSoFar ==
    /\ IsPrefix(Concat(sent), Texts(untranslated))
    /\ \A b \in 1..Len(sent) :
           /\ Len(sent[b]) \in 1..batch_size
           /\ b < Len(sent) => Len(sent[b]) = batch_size

\* C4 as stated: when translate_po_file is over on a file with untranslated
\* messages, the batches passed to translate_text partition the extracted
\* messages in file order, each of 1..batch_size messages, only the last one
\* shorter, and there were ceil(total / batch_size) calls.
C4_BatchesPartition ==
    /\ BatchesSoFar
    /\ (AtOver /\ total >= 1) =>
           /\ Concat(sent) = Texts(untranslated)
           /\ Len(sent) = NumBatches(total, batch_size)
           /\ Calls = NumBatches(total, batch_size)

\* C4 as amended: the same, for a run with AZURE_TRANSLATOR_KEY set.
C4_BatchesPartition_KeySet ==
    /\ BatchesSoFar
    /\ (AtOver /\ total >= 1 /\ api_key) =>
           /\ Concat(sent) = Texts(untranslated)
           /\ Len(sent) = NumBatches(total, batch_size)
           /\ Calls = NumBatches(total, batch_size)
           /\ NumBatches(total, batch_size) * batch_size >= total
           /\ (NumBatches(total, batch_size) - 1) * batch_size < total

\* a run with the key set sent every message, the last batch a shorter one
C4_Witness ==
    /\ pc = "written"
    /\ api_key
    /\ Len(sent) >= 2
    /\ Len(sent[Len(sent)]) < batch_size
    /\ Concat(sent) = Texts(untranslated)

\* C5: when the HTTP call of a batch fails, translate_text returns len(texts)
\* empty strings; the zip loop changes no entry and does not raise
\* translated_count; the run is not aborted and returns only after the
\* write, every batch has been sent by then, and the file holds the content
\* with what the other batches translated.
C5_HttpFailureTolerated ==
    /\ (pc = "replace" /\ ~http_ok) =>
           /\ translations = [j \in 1..Len(sent[Len(sent)]) |-> <<>>]
           /\ ReplaceLoop(Batch(untranslated, i, batch_size), translations, 1,
                          content, translated_count)
                  = [content |-> content, count |-> translated_count]
    /\ failed > 0 =>
           /\ pc \in {"replace", "sleep", "call", "write", "written", "exit"}
           /\ BatchesSoFar
    /\ (failed > 0 /\ pc \in {"written", "exit"}) =>
           /\ Concat(sent) = Texts(untranslated)
           /\ Len(sent) = NumBatches(total, batch_size)
           /\ writes = 1
           /\ file = content
           /\ ret = (IF pc = "exit" THEN "0" ELSE "none")

\* the file was written with a translation although one batch had failed
C5_Witness ==
    /\ pc = "written"
    /\ failed > 0
    /\ translated_count > 0
    /\ file # RenderFile(entries)

\* C6: without AZURE_TRANSLATOR_KEY translate_text raises for every input,
\* the empty list included; a run on a file with an untranslated message
\* raises at the first batch, the error is not absorbed, nothing is written,
\* the PO file stays as it was and main returns 1.
C6_MissingKeyAborts ==
    /\ ~api_key =>
           \A texts \in {<<>>, << <<"a">> >>} :
               \A resp \in Responses(Len(texts)) :
                   translate_text(api_key, texts, resp).raised
    /\ pc = "raised" => ~api_key
    /\ (~api_key /\ pc # "start" /\ total >= 1) =>
           /\ pc \in {"call", "raised", "exit"}
           /\ writes = 0
           /\ file = RenderFile(entries)
           /\ Calls = (IF pc = "call" THEN 0 ELSE 1)
           /\ pc = "exit" => ret = "1"

\* main returned 1 on a file with two untranslated messages
C6_Witness ==
    /\ ~api_key
    /\ pc = "exit"
    /\ ret = "1"
    /\ total >= 2
    /\ file = RenderFile(entries)

\* C8: translate_text returns one translation per input text on every
\* return path and for every response body, so the zip pairs every message
\* of the batch with a translation.
C8_OneTranslationPerText ==
    pc = "replace" => Len(translations) = Len(sent[Len(sent)])

\* C9: re-escaping the unescaped msgid of an extracted message gives the
\* msgid text of the file, so old_pattern is found at the message's position;
\* the final translated_count is the number of non-empty translations
\* returned, between 0 and total, and total >= 1.
C9_EveryTranslationFilledIn ==
    /\ \A j \in 1..Len(untranslated) :
           StartsWithAt(RenderFile(entries), OldPattern(untranslated[j].msgid),
                        untranslated[j].position)
    /\ pc = "written" =>
           /\ translated_count = returned
           /\ translated_count \in 0..total
           /\ total >= 1

====
